---- MODULE Spec2Model ----
(***************************************************************************)
(* State-machine model of statsmodels/gam/gam.py: the GLMGam model object, *)
(* its P-IRLS engine (_fit_pirls), the penalized WLS solver with the       *)
(* augmented-matrix builder, the results object (GLMGAMResults) and the    *)
(* penalty-weight selector (select_penweight).                             *)
(*                                                                         *)
(* Numbers are integers: a float operation is modelled by the integer      *)
(* operation rounded to the integer grid, np.inf by Inf and None by the   *)
(* empty tuple.  The model is fitted with the default family (Gaussian,    *)
(* identity link) on a design with one smooth term and one basis column.   *)
(***************************************************************************)
EXTENDS Integers, Sequences, FiniteSets, TLC

VARIABLES
    pc,        \* control position: "new", "idle", "loop", "opt", "fun"
    endog,     \* self.endog, the response vector
    self,      \* the fields of the GLMGam instance
    args,      \* the arguments of the running / last _fit_pirls call
    loc,       \* the local variables of the running / last _fit_pirls call
    history,   \* the local `history` dict of _fit_pirls
    cnt,       \* per-call counters of solves and checks
    out,       \* what the last _fit_pirls call gave its caller
    sel,       \* the frame of select_penweight (its locals and the optimizer)
    sel_out,   \* what the last select_penweight call gave its caller
    prev,      \* outcome of the preceding _fit_pirls call, kept on a repeat
    aug        \* caller-side arrays and result of a make_augmented_matrix call

vars == <<pc, endog, self, args, loc, history, cnt, out, sel, sel_out, prev, aug>>

---------------------------------------------------------------------------
(* Values *)

None == <<>>

Inf == 100000

Absent == -1

FixedPoint == 1000

MaxIterArg == 3

MaxIterDefault == 100

TolDefault == 0

MaxEvals == 2

MaxDim == 2

Exog == <<<<1>>, <<2>>>>

PenaltyS0 == <<<<2>>>>

Endogs == {<<1, 2>>, <<6, 12>>}

KSmooths == Len(Exog[1])

Abs(x) == IF x < 0 THEN 0 - x ELSE x

\* float division, rounded to the nearest point of the integer grid
SafeDiv(a, b) ==
    IF b = 0 THEN Inf
    ELSE IF b > 0 THEN (2 * a + b) \div (2 * b)
    ELSE (2 * (0 - a) - b) \div (2 * (0 - b))

RECURSIVE SumSeq(_)
SumSeq(s) == IF s = <<>> THEN 0 ELSE Head(s) + SumSeq(Tail(s))

Dot(u, v) == SumSeq([i \in 1..Len(u) |-> u[i] * v[i]])

Ones(n) == [i \in 1..n |-> 1]

ISqrt(n) == CHOOSE r \in 0..n : r * r <= n /\ (r + 1) * (r + 1) > n

MatScale(c, m) == [i \in 1..Len(m) |-> [j \in 1..Len(m[i]) |-> c * m[i][j]]]

\* np.allclose(a, b, atol=atol, rtol=rtol) on scalars
AllClose(a, b, atol, rtol) == Abs(a - b) <= atol + rtol * Abs(b)

---------------------------------------------------------------------------
(* Collaborators outside gam.py: family, link, WLS, penalty, scale *)

family_starting_mu(y) ==
    LET mean == SafeDiv(SumSeq(y), Len(y))
    IN  [i \in 1..Len(y) |-> SafeDiv(y[i] + mean, 2)]

family_predict(mu) == mu

family_fitted(lin_pred) == lin_pred

family_weights(mu) == [i \in 1..Len(mu) |-> 1]

family_link_deriv(mu) == [i \in 1..Len(mu) |-> 1]

family_deviance(y, mu, scale) ==
    SafeDiv(SumSeq([i \in 1..Len(y) |-> (y[i] - mu[i]) * (y[i] - mu[i])]), scale)

\* self.penal.penalty_matrix(alpha): each term's matrix scaled by its alpha
penalty_matrix(alpha) == MatScale(alpha[1], PenaltyS0)

\* statsmodels.tools.linalg.matrix_sqrt on a diagonal matrix
matrix_sqrt(s) ==
    [i \in 1..Len(s) |-> [j \in 1..Len(s) |-> IF i = j THEN ISqrt(s[i][i]) ELSE 0]]

\* lm.WLS(y, x, w).fit() for a one-column design; the covariance is in
\* units of 1 / FixedPoint
WLS_fit(y, x, w) ==
    LET xtwx == SumSeq([i \in 1..Len(x) |-> w[i] * x[i][1] * x[i][1]])
        xtwy == SumSeq([i \in 1..Len(x) |-> w[i] * x[i][1] * y[i]])
    IN  [params |-> <<IF xtwx = 0 THEN 0 ELSE SafeDiv(xtwy, xtwx)>>,
         normalized_cov_params |->
             <<<<IF xtwx = 0 THEN 0 ELSE SafeDiv(FixedPoint, xtwx)>>>>]

\* lm.RegressionResults(model, params, normalized_cov_params)
RegressionResults(params, normalized_cov_params) ==
    [params |-> params, normalized_cov_params |-> normalized_cov_params]

\* GLM.estimate_scale(mu): Pearson chi2 over the model's df_resid, which
\* is in units of 1 / FixedPoint
estimate_scale(y, mu, df_resid) ==
    SafeDiv(family_deviance(y, mu, 1) * FixedPoint, df_resid)

\* GLM._update_history: appends in place, deviance at the model's scale
update_history(tmp_result, mu, hist, y, scale) ==
    [params |-> Append(hist.params, tmp_result.params),
     deviance |-> Append(hist.deviance, family_deviance(y, mu, scale))]

\* _check_convergence(criterion, iteration, atol, rtol), 0-based indices
check_convergence(criterion, iteration, atol, rtol) ==
    AllClose(criterion[iteration + 1], criterion[iteration + 2], atol, rtol)

\* GLM.hessian_factor(params): the IRLS weights of the family over the
\* estimated scale, as a fraction num / den per observation
hessian_factor(params, scale) == [i \in 1..Len(Exog) |-> [num |-> 1, den |-> scale]]

---------------------------------------------------------------------------
(* gam.py: make_augmented_matrix and penalized_wls *)

make_augmented_matrix_zero_weights(y, x, s, weights) ==
    LET nobs == Len(x)
        rs == matrix_sqrt(s)
        x1 == x \o rs
        n_samp1es_x1 == Len(x1)
        y1 == [i \in 1..n_samp1es_x1 |-> IF i <= nobs THEN y[i] ELSE 0]
        id1 == [i \in 1..Len(rs) |-> 0]
        w1 == weights \o id1
    IN  [endog |-> y1, exog |-> x1, weights |-> w1]

make_augmented_matrix(y, x, s, weights) ==
    LET nobs == Len(x)
        rs == matrix_sqrt(s)
        x1 == x \o rs
        n_samp1es_x1 == Len(x1)
        y1 == [i \in 1..n_samp1es_x1 |-> IF i <= nobs THEN y[i] ELSE 0]
        id1 == [i \in 1..Len(rs) |-> 1]
        w1 == weights \o id1
    IN  [endog |-> y1, exog |-> x1, weights |-> w1]

\* the penalty matrix that penalized_wls hands to make_augmented_matrix
AugmentedPenaltyPlain(s) == s

AugmentedPenalty(s) == MatScale(2, s)

penalized_wls(y, x, s, weights) ==
    LET a == make_augmented_matrix(y, x, AugmentedPenalty(s), weights)
    IN  WLS_fit(a.endog, a.exog, a.weights)

---------------------------------------------------------------------------
(* gam.py: GLMGAMResults *)

\* get_hat_matrix_diag(_axis=0).sum(): the total effective degrees of
\* freedom, in units of 1 / FixedPoint.  hess_inv is the covariance times
\* the scale and the weights are over the same scale, which cancels.
edf_sum(params, normalized_cov_params, scale) ==
    LET weights == hessian_factor(params, scale)
        hess_inv == normalized_cov_params[1][1] * scale
    IN  SumSeq([i \in 1..Len(Exog) |->
            SafeDiv(weights[i].num * Exog[i][1] * Exog[i][1] * hess_inv,
                    weights[i].den)])

\* GLMGAMResults.__init__ raises TypeError when the covariance is None:
\* get_hat_matrix_diag multiplies normalized_cov_params by the scale
GLMGAMResults_raises(normalized_cov_params) == normalized_cov_params = None

\* GLMGAMResults.__init__ otherwise: the df fields it sets on the model
\* (in units of 1 / FixedPoint) and the scale it re-estimates
GLMGAMResults_init(y, params, normalized_cov_params, scale) ==
    LET edf == edf_sum(params, normalized_cov_params, scale)
        df_model == edf - FixedPoint
        df_resid == Len(y) * FixedPoint - edf
        mu == [i \in 1..Len(Exog) |-> Dot(Exog[i], params)]
    IN  [params |-> params, edf |-> edf, df_model |-> df_model,
         df_resid |-> df_resid, scale |-> estimate_scale(y, mu, df_resid)]

---------------------------------------------------------------------------
(* gam.py: GLMGam.__init__ and _check_alpha *)

\* an alpha argument: a scalar, or an iterable that is a list or is not
AlphaInputs ==
    {[kind |-> "scalar", val |-> <<a>>] : a \in {1}}
    \cup {[kind |-> k, val |-> v] : k \in {"list", "tuple"},
                                    v \in {<<1>>, <<4, 1>>}}

check_alpha(alpha) ==
    IF alpha.kind = "scalar"
    THEN [i \in 1..KSmooths |-> alpha.val[1]]
    ELSE alpha.val

NoOut ==
    [kind |-> "none", exc |-> "", params |-> None, scale |-> 0, edf |-> 0,
     converged |-> FALSE,
     fit_history |-> [params |-> <<>>, deviance |-> <<>>, iteration |-> 0]]

NoArgs ==
    [alpha |-> None, start_params |-> None, maxiter |-> 0, tol |-> 0,
     weights |-> None, caller |-> "user"]

NoLoc ==
    [spl_s |-> <<>>, lin_pred |-> <<>>, mu |-> <<>>, converged |-> FALSE,
     last_test |-> FALSE, iteration |-> 0, next_i |-> 0, broke |-> FALSE,
     wls_results |-> RegressionResults(None, None), aug_penalty |-> <<>>]

NoHistory == [params |-> <<>>, deviance |-> <<>>]

NoCnt == [solves |-> 0, sepchecks |-> 0, convchecks |-> 0, results |-> 0]

NoSel ==
    [method |-> "", criterion |-> "", start_model_params |-> None,
     alpha |-> <<>>, params |-> <<>>, criterion_trace |-> <<>>,
     nevals |-> 0, fvals |-> <<>>, xs |-> <<>>, x |-> <<>>]

NoSelOut ==
    [kind |-> "none", exc |-> "", alpha |-> None,
     history |-> [alpha |-> <<>>, params |-> <<>>, criterion |-> <<>>],
     nevals |-> 0, method |-> ""]

NoAug ==
    [called |-> FALSE, y |-> <<>>, x |-> <<>>, s |-> <<>>, w |-> <<>>,
     before |-> <<>>, result |-> [endog |-> <<>>, exog |-> <<>>, weights |-> <<>>]]

Init ==
    /\ pc = "new"
    /\ endog \in Endogs
    /\ self = [alpha |-> None, data_weights |-> None, offset_exposure |-> Absent,
               scale |-> Absent, weights |-> None, mu |-> None,
               df_model |-> (Len(Exog[1]) - 1) * FixedPoint,
               df_resid |-> (Len(Exog) - Len(Exog[1])) * FixedPoint]
    /\ args = NoArgs
    /\ loc = NoLoc
    /\ history = NoHistory
    /\ cnt = NoCnt
    /\ out = NoOut
    /\ sel = NoSel
    /\ sel_out = NoSelOut
    /\ prev = NoOut
    /\ aug = NoAug

\* GLMGam.__init__
Construct ==
    /\ pc = "new"
    /\ \E alpha \in AlphaInputs :
          self' = [self EXCEPT !.alpha = check_alpha(alpha)]
    /\ pc' = "idle"
    /\ UNCHANGED <<endog, args, loc, history, cnt, out, sel, sel_out, prev, aug>>

---------------------------------------------------------------------------
(* gam.py: GLMGam._fit_pirls *)

AlphaArgs == {<<1>>, <<4>>}

StartParams == {None, <<0>>}

Tols == {-1, 0}

WeightArgs == {None, <<4, 1>>}

\* the value _fit_pirls gives self.scale for the duration of the iteration
IterationScaleKept(scale) == IF scale = Absent THEN 1 ELSE scale

IterationScale(scale) == 1

\* for iteration in range(maxiter)
LoopContinuesInclusive(i, maxiter) == i <= maxiter

LoopContinues(i, maxiter) == i < maxiter

\* endog.squeeze().ndim == 1 and np.allclose(mu - endog, 0)
EndogNdim(y) == IF y \in Seq(Int) THEN 1 ELSE 2

PerfectSeparationTwoDim(y, mu) ==
    /\ EndogNdim(y) = 2
    /\ \A i \in 1..Len(y) : AllClose(mu[i] - y[i], 0, 0, 0)

PerfectSeparation(y, mu) ==
    /\ EndogNdim(y) = 1
    /\ \A i \in 1..Len(y) : AllClose(mu[i] - y[i], 0, 0, 0)

\* glm_results.converged = converged
ResultConvergedAlways(converged) == TRUE

ResultConverged(converged) == converged

\* the params handed to GLMGAMResults: wls_results.params
ResultParams(wls_results) == wls_results.params

\* history = dict(params=[None, start_params], deviance=[np.inf, dev])
HistorySeedSingle(start_params, dev) ==
    [params |-> <<start_params>>, deviance |-> <<dev>>]

HistorySeed(start_params, dev) ==
    [params |-> <<None, start_params>>, deviance |-> <<Inf, dev>>]

\* self.alpha when _fit_pirls (alpha, ...) has set up the run: the method
\* assigns data_weights, _offset_exposure, scaletype and scale, not alpha
PirlsModelAlphaStored(model_alpha, alpha) == alpha

PirlsModelAlpha(model_alpha, alpha) == model_alpha

\* hand a result or an exception to the caller of _fit_pirls
Deliver(o, caller) ==
    /\ out' = o
    /\ pc' = IF caller = "select" THEN "fun" ELSE "idle"

Raised(exc) == [NoOut EXCEPT !.kind = "raise", !.exc = exc]

\* lines 489-528: everything _fit_pirls does before the loop
PirlsStart(alpha, start_params, maxiter, tol, weights, caller) ==
    LET spl_s == penalty_matrix(alpha)
        nobs == Len(Exog)
        data_weights == IF weights = None THEN Ones(nobs) ELSE weights
        offset_exposure == IF self.offset_exposure = Absent
                           THEN 0 ELSE self.offset_exposure
        mu0 == IF start_params = None
               THEN family_starting_mu(endog)
               ELSE family_fitted([i \in 1..nobs |->
                        Dot(Exog[i], start_params) + offset_exposure])
        lin_pred == IF start_params = None
                    THEN family_predict(mu0)
                    ELSE [i \in 1..nobs |->
                             Dot(Exog[i], start_params) + offset_exposure]
        dev == family_deviance(endog, mu0, 1)
        mu == IF maxiter = 0 THEN family_fitted(lin_pred) ELSE mu0
    IN  /\ self' = [self EXCEPT
                      !.alpha = PirlsModelAlpha(self.alpha, alpha),
                      !.data_weights = data_weights,
                      !.offset_exposure = offset_exposure,
                      !.scale = IF maxiter = 0
                                THEN estimate_scale(endog, mu, self.df_resid)
                                ELSE IterationScale(self.scale)]
        /\ args' = [alpha |-> alpha, start_params |-> start_params,
                    maxiter |-> maxiter, tol |-> tol, weights |-> weights,
                    caller |-> caller]
        /\ loc' = [NoLoc EXCEPT
                      !.spl_s = spl_s, !.lin_pred = lin_pred, !.mu = mu,
                      !.wls_results = RegressionResults(start_params, None)]
        /\ history' = HistorySeed(start_params, dev)
        /\ cnt' = NoCnt
        /\ out' = NoOut
        /\ pc' = "loop"

\* a direct call of _fit_pirls
CallFitPirls ==
    /\ pc = "idle"
    /\ \E alpha \in AlphaArgs, start_params \in StartParams,
          maxiter \in 0..MaxIterArg, tol \in Tols, weights \in WeightArgs :
          PirlsStart(alpha, start_params, maxiter, tol, weights, "user")
    /\ prev' = NoOut
    /\ sel_out' = NoSelOut
    /\ UNCHANGED <<endog, sel, aug>>

\* the same call once more, with the arguments of the call just finished
CallFitPirlsAgain ==
    /\ pc = "idle"
    /\ out.kind # "none"
    /\ args.caller = "user"
    /\ prev.kind = "none"
    /\ PirlsStart(args.alpha, args.start_params, args.maxiter, args.tol,
                  args.weights, "user")
    /\ prev' = out
    /\ sel_out' = NoSelOut
    /\ UNCHANGED <<endog, sel, aug>>

\* GLMGam.fit with method 'pirls' in any letter case: _fit_pirls at self.alpha
FitMethods == {"pirls", "PIRLS"}

Lower(method) == IF method = "PIRLS" THEN "pirls" ELSE method

Fit ==
    /\ pc = "idle"
    /\ \E method \in FitMethods, maxiter \in 0..MaxIterArg :
          /\ Lower(method) = "pirls"
          /\ PirlsStart(self.alpha, None, maxiter, TolDefault, None, "fit")
    /\ prev' = NoOut
    /\ sel_out' = NoSelOut
    /\ UNCHANGED <<endog, sel, aug>>

\* lines 530-557: one pass of the loop body
PirlsIterate ==
    /\ pc = "loop"
    /\ ~loc.broke
    /\ LoopContinues(loc.next_i, args.maxiter)
    /\ LET iteration == loc.next_i
           nobs == Len(Exog)
           weights == [i \in 1..nobs |->
                          self.data_weights[i] * family_weights(loc.mu)[i]]
           wlsendog == [i \in 1..nobs |->
                          loc.lin_pred[i]
                          + family_link_deriv(loc.mu)[i] * (endog[i] - loc.mu[i])
                          - self.offset_exposure]
           wls_results == penalized_wls(wlsendog, Exog, loc.spl_s, weights)
           lin_pred == [i \in 1..nobs |->
                          Dot(Exog[i], wls_results.params) + self.offset_exposure]
           mu == family_fitted(lin_pred)
           hist == update_history(wls_results, mu, history, endog, self.scale)
           separated == PerfectSeparation(endog, mu)
           converged == check_convergence(hist.deviance, iteration, args.tol, 0)
       IN  /\ self' = [self EXCEPT !.weights = weights]
           /\ history' = hist
           /\ IF separated
              THEN /\ loc' = [loc EXCEPT
                                !.iteration = iteration, !.next_i = iteration + 1,
                                !.lin_pred = lin_pred, !.mu = mu,
                                !.wls_results = wls_results,
                                !.aug_penalty = Append(@, AugmentedPenalty(loc.spl_s))]
                   /\ cnt' = [cnt EXCEPT !.solves = @ + 1, !.sepchecks = @ + 1]
                   /\ Deliver(Raised("PerfectSeparationError"), args.caller)
              ELSE /\ loc' = [loc EXCEPT
                                !.iteration = iteration, !.next_i = iteration + 1,
                                !.lin_pred = lin_pred, !.mu = mu,
                                !.wls_results = wls_results,
                                !.aug_penalty = Append(@, AugmentedPenalty(loc.spl_s)),
                                !.converged = converged,
                                !.last_test = converged,
                                !.broke = converged]
                   /\ cnt' = [cnt EXCEPT !.solves = @ + 1, !.sepchecks = @ + 1,
                                         !.convchecks = @ + 1]
                   /\ UNCHANGED <<out, pc>>
    /\ UNCHANGED <<endog, args, sel, sel_out, prev, aug>>

\* lines 558-571: after the loop
PirlsFinish ==
    /\ pc = "loop"
    /\ loc.broke \/ ~LoopContinues(loc.next_i, args.maxiter)
    /\ LET scale == estimate_scale(endog, loc.mu, self.df_resid)
           ncp == loc.wls_results.normalized_cov_params
           res == GLMGAMResults_init(endog, ResultParams(loc.wls_results),
                                     ncp, scale)
       IN  IF GLMGAMResults_raises(ncp)
           THEN /\ self' = [self EXCEPT !.mu = loc.mu, !.scale = scale]
                /\ cnt' = cnt
                /\ Deliver(Raised("TypeError"), args.caller)
           ELSE /\ self' = [self EXCEPT !.mu = loc.mu, !.scale = scale,
                                        !.df_model = res.df_model,
                                        !.df_resid = res.df_resid]
                /\ cnt' = [cnt EXCEPT !.results = @ + 1]
                /\ Deliver([kind |-> "ok", exc |-> "", params |-> res.params,
                            scale |-> res.scale, edf |-> res.edf,
                            converged |-> ResultConverged(loc.converged),
                            fit_history |->
                                [params |-> history.params,
                                 deviance |-> history.deviance,
                                 iteration |-> loc.iteration + 1]],
                           args.caller)
    /\ UNCHANGED <<endog, args, loc, history, sel, sel_out, prev, aug>>

---------------------------------------------------------------------------
(* gam.py: GLMGam.select_penweight *)

Methods == {"nm", "basinhopping", "minimize", "powell"}

Criteria == {"gcv"}

\* candidate log-alphas of the optimizer, in units of ln 4
LogAlphas == {0, 1}

\* np.exp on the candidate grid
Exp(p) == IF p = 0 THEN 1 ELSE 4

\* np.zeros(self.k_smooths)
Zeros == [i \in 1..KSmooths |-> 0]

\* the if / elif chain on `method`: the scipy routine called, or ValueError
select_dispatch_default(method) ==
    IF method = "nm" THEN "fmin"
    ELSE IF method = "minimize" THEN "minimize"
    ELSE "basinhopping"

select_dispatch(method) ==
    IF method = "nm" THEN "fmin"
    ELSE IF method = "basinhopping" THEN "basinhopping"
    ELSE IF method = "minimize" THEN "minimize"
    ELSE "ValueError"

\* GLMGAMResults.gcv: scale / (1 - hat_matrix_trace / nobs) ** 2
gcv(res) ==
    LET nobs == Len(Exog) * FixedPoint
    IN  SafeDiv(res.scale * Len(Exog) * Len(Exog),
                SafeDiv((nobs - res.edf) * (nobs - res.edf),
                        FixedPoint * FixedPoint))

\* getattr(res_, criterion)
getattr(res, criterion) == gcv(res)

\* start_params=history['params'][-1]
fun_start_params_first(params_trace) == params_trace[1]

fun_start_params(params_trace) == params_trace[Len(params_trace)]

\* fun has no try / except: an exception of _fit_pirls leaves fun, the
\* optimizer and select_penweight
FunSwallows(exc) == FALSE

FunPropagates(exc) == TRUE

\* fun appends to the trace after _fit_pirls returned
TraceAppendCriterion(trace, value) == trace

\* del history['params'][0]
DropStartParams(params) == Tail(params)

\* lines 634-666: set up the trace, define fun, pick the optimizer
SelectPenweight ==
    /\ pc = "idle"
    /\ \E method \in Methods, criterion \in Criteria,
          start_params \in {None, <<1>>}, start_model_params \in StartParams :
          LET x0 == IF start_params = None THEN Zeros ELSE start_params
              frame == [NoSel EXCEPT
                          !.method = method, !.criterion = criterion,
                          !.start_model_params = start_model_params,
                          !.alpha = <<>>,
                          !.params = <<start_model_params>>,
                          !.criterion_trace = <<>>,
                          !.x = x0]
          IN  IF select_dispatch(method) = "ValueError"
              THEN /\ sel' = NoSel
                   /\ sel_out' = [NoSelOut EXCEPT
                                    !.kind = "raise", !.exc = "ValueError",
                                    !.method = method]
                   /\ pc' = "idle"
              ELSE /\ sel' = frame
                   /\ sel_out' = NoSelOut
                   /\ pc' = "opt"
    /\ args' = NoArgs
    /\ loc' = NoLoc
    /\ history' = NoHistory
    /\ cnt' = NoCnt
    /\ out' = NoOut
    /\ prev' = NoOut
    /\ UNCHANGED <<endog, self, aug>>

\* the optimizer calls fun(p); lines 643-645: fun calls _fit_pirls
OptEvaluate ==
    /\ pc = "opt"
    /\ sel.nevals < MaxEvals
    /\ \E p \in (IF sel.nevals = 0 THEN {sel.x} ELSE {<<q>> : q \in LogAlphas}) :
          LET a == [i \in 1..Len(p) |-> Exp(p[i])]
          IN  /\ PirlsStart(a, fun_start_params(sel.params), MaxIterDefault,
                            TolDefault, None, "select")
              /\ sel' = [sel EXCEPT !.x = p]
    /\ UNCHANGED <<endog, sel_out, prev, aug>>

\* lines 646-648: _fit_pirls returned to fun, fun returns to the optimizer
FunReturn ==
    /\ pc = "fun"
    /\ out.kind = "ok"
    /\ LET a == [i \in 1..Len(sel.x) |-> Exp(sel.x[i])]
           value == getattr(out, sel.criterion)
       IN  sel' = [sel EXCEPT
                     !.alpha = Append(@, a),
                     !.params = Append(@, out.params),
                     !.criterion_trace = TraceAppendCriterion(@, value),
                     !.nevals = @ + 1,
                     !.fvals = Append(@, value),
                     !.xs = Append(@, sel.x)]
    /\ pc' = "opt"
    /\ UNCHANGED <<endog, self, args, loc, history, cnt, out, sel_out, prev, aug>>

\* _fit_pirls raised inside fun
FunRaise ==
    /\ pc = "fun"
    /\ out.kind = "raise"
    /\ IF FunPropagates(out.exc)
       THEN /\ sel' = NoSel
            /\ sel_out' = [NoSelOut EXCEPT
                             !.kind = "raise", !.exc = out.exc,
                             !.method = sel.method, !.nevals = sel.nevals]
            /\ pc' = "idle"
       ELSE /\ sel' = [sel EXCEPT !.nevals = @ + 1,
                                  !.fvals = Append(@, Inf),
                                  !.xs = Append(@, sel.x)]
            /\ sel_out' = sel_out
            /\ pc' = "opt"
    /\ UNCHANGED <<endog, self, args, loc, history, cnt, out, prev, aug>>

\* the point the optimizer reports: the first best of those it evaluated
RECURSIVE ArgMin(_, _)
ArgMin(fvals, n) ==
    IF n = 1 THEN 1
    ELSE LET m == ArgMin(fvals, n - 1)
         IN  IF fvals[n] < fvals[m] THEN n ELSE m

\* lines 668-671: the optimizer returned
OptFinish ==
    /\ pc = "opt"
    /\ sel.nevals >= 1
    /\ LET opt == sel.xs[ArgMin(sel.fvals, Len(sel.fvals))]
           alpha == [i \in 1..Len(opt) |-> Exp(opt[i])]
       IN  sel_out' = [kind |-> "ok", exc |-> "", alpha |-> alpha,
                       history |-> [alpha |-> sel.alpha,
                                    params |-> DropStartParams(sel.params),
                                    criterion |-> sel.criterion_trace],
                       nevals |-> sel.nevals, method |-> sel.method]
    /\ sel' = NoSel
    /\ pc' = "idle"
    /\ UNCHANGED <<endog, self, args, loc, history, cnt, out, prev, aug>>

Next ==
    \/ Construct
    \/ CallFitPirls
    \/ CallFitPirlsAgain
    \/ Fit
    \/ PirlsIterate
    \/ PirlsFinish
    \/ SelectPenweight
    \/ OptEvaluate
    \/ FunReturn
    \/ FunRaise
    \/ OptFinish

Spec == Init /\ [][Next]_vars

---------------------------------------------------------------------------
(* make_augmented_matrix as a function of its arguments: the arguments are
   drawn from bounded sets and the function is applied once *)

AugRows == {1, 2}

Vectors(n, S) == [1..n -> S]

Matrices(n, p, S) == [1..n -> [1..p -> S]]

\* diagonal penalty matrices with perfect-square entries
Penalties(p) ==
    {[i \in 1..p |-> [j \in 1..p |-> IF i = j THEN d[i] ELSE 0]] :
        d \in [1..p -> {0, 1, 4}]}

InitAug ==
    /\ pc = "aug"
    /\ endog = None
    /\ self = [alpha |-> None, data_weights |-> None, offset_exposure |-> Absent,
               scale |-> Absent, weights |-> None, mu |-> None,
               df_model |-> 0, df_resid |-> 0]
    /\ args = NoArgs
    /\ loc = NoLoc
    /\ history = NoHistory
    /\ cnt = NoCnt
    /\ out = NoOut
    /\ sel = NoSel
    /\ sel_out = NoSelOut
    /\ prev = NoOut
    /\ \E n \in AugRows, p \in 1..MaxDim :
          \E y \in Vectors(n, {0, 3}), x \in Matrices(n, p, {0, 1}),
             s \in Penalties(p), w \in Vectors(n, {1, 2}) :
             aug = [NoAug EXCEPT !.y = y, !.x = x, !.s = s, !.w = w]

\* a call make_augmented_matrix(y, x, s, w) on the caller's arrays
CallMakeAugmented ==
    /\ pc = "aug"
    /\ ~aug.called
    /\ aug' = [aug EXCEPT
                 !.called = TRUE,
                 !.before = <<aug.y, aug.x, aug.s, aug.w>>,
                 !.result = make_augmented_matrix(aug.y, aug.x, aug.s, aug.w)]
    /\ UNCHANGED <<pc, endog, self, args, loc, history, cnt, out, sel, sel_out, prev>>

NextAug == CallMakeAugmented

SpecAug == InitAug /\ [][NextAug]_vars

---------------------------------------------------------------------------
(* Properties *)

RunOver == pc \in {"idle", "fun", "opt"} /\ out.kind # "none"

\* C1: a run of _fit_pirls with maxiter = m makes at most m calls of
\* penalized_wls, whatever the convergence test returns, and every step it
\* takes inside the loop either adds one solve or ends the run with a result
\* or an exception, so the run ends within m + 1 steps.
C1_MaxiterHardCap ==
    /\ [](/\ cnt.solves <= args.maxiter
          /\ cnt.solves = Len(loc.aug_penalty))
    /\ [][pc = "loop"
          => \/ /\ pc' = "loop"
                /\ cnt'.solves = cnt.solves + 1
                /\ loc'.next_i = loc.next_i + 1
             \/ /\ pc' # "loop"
                /\ out'.kind \in {"ok", "raise"}]_vars

\* a run whose convergence test never succeeded used up all maxiter solves
\* and then returned
C1_Witness ==
    /\ RunOver
    /\ out.kind = "ok"
    /\ args.maxiter = MaxIterArg
    /\ cnt.solves = MaxIterArg
    /\ ~loc.last_test

\* C2: if after an iteration the updated mean equals the response at every
\* observation, the run has raised PerfectSeparationError in that iteration:
\* the convergence test of that iteration was not evaluated, no results
\* object was built and no coefficients were returned.
C2_PerfectSeparationRaises ==
    (cnt.solves >= 1 /\ \A i \in 1..Len(endog) : loc.mu[i] = endog[i])
    => /\ pc # "loop"
       /\ out.kind = "raise"
       /\ out.exc = "PerfectSeparationError"
       /\ out.params = None
       /\ cnt.convchecks = cnt.solves - 1
       /\ cnt.sepchecks = cnt.solves
       /\ cnt.results = 0

\* a run stopped by perfect separation right after a solve
C2_Witness ==
    /\ out.kind = "raise"
    /\ out.exc = "PerfectSeparationError"
    /\ cnt.solves >= 1
    /\ \A i \in 1..Len(endog) : loc.mu[i] = endog[i]

\* C3: a run that made all maxiter >= 1 iterations without the convergence
\* test succeeding returns a result with converged = False, and a returned
\* result has converged = True only if the test of the last iteration
\* executed succeeded.
C3_NonConvergenceReported ==
    /\ (/\ pc # "loop"
        /\ args.maxiter >= 1
        /\ cnt.solves = args.maxiter
        /\ cnt.convchecks = cnt.solves
        /\ ~loc.last_test)
       => (out.kind = "ok" /\ out.converged = FALSE)
    /\ (out.kind = "ok" /\ out.converged)
       => (loc.last_test /\ cnt.convchecks = cnt.solves /\ cnt.solves >= 1)

C3_Witness ==
    /\ out.kind = "ok"
    /\ out.converged = FALSE
    /\ args.maxiter >= 2
    /\ cnt.solves = args.maxiter
    /\ cnt.convchecks = cnt.solves

\* C4 (as claimed): a call with maxiter = 0 and start_params given skips the
\* loop and returns a result whose params are start_params.
C4_MaxiterZeroReturnsStart ==
    (pc = "idle" /\ out.kind # "none" /\ args.maxiter = 0
        /\ args.start_params # None)
    => /\ cnt.solves = 0
       /\ cnt.sepchecks = 0
       /\ cnt.convchecks = 0
       /\ out.kind = "ok"
       /\ out.params = args.start_params

RecognizedMethods == {"nm", "basinhopping", "minimize"}

\* C5: select_penweight with a method other than 'nm', 'basinhopping' or
\* 'minimize' raises ValueError without any call of _fit_pirls, and the
\* optimizer and fun only ever run under one of the three methods.
C5_UnknownMethodRejected ==
    /\ (sel_out.kind # "none" /\ sel_out.method \notin RecognizedMethods)
       => /\ sel_out.kind = "raise"
          /\ sel_out.exc = "ValueError"
          /\ sel_out.nevals = 0
          /\ out.kind = "none"
          /\ cnt = NoCnt
          /\ pc = "idle"
    /\ (pc \in {"opt", "fun"} \/ (pc = "loop" /\ args.caller = "select"))
       => sel.method \in RecognizedMethods
    /\ (sel_out.kind = "raise" /\ sel_out.exc = "ValueError")
       => sel_out.method \notin RecognizedMethods

C5_Witness ==
    /\ sel_out.kind = "raise"
    /\ sel_out.exc = "ValueError"
    /\ sel_out.method = "powell"
    /\ self.scale = Absent

\* C6 (as claimed): the history select_penweight returns after N objective
\* evaluations has N entries in each of 'alpha', 'criterion' and 'params'.
C6_TraceOnePerEvaluation ==
    sel_out.kind = "ok"
    => /\ Len(sel_out.history.alpha) = sel_out.nevals
       /\ Len(sel_out.history.criterion) = sel_out.nevals
       /\ Len(sel_out.history.params) = sel_out.nevals

\* C7 (as claimed): when _fit_pirls fails at the k-th evaluation the caller
\* of select_penweight has the trace of the k-1 completed evaluations.
C7_TraceSurvivesFailure ==
    (sel_out.kind = "raise" /\ sel_out.exc # "ValueError")
    => /\ Len(sel_out.history.alpha) = sel_out.nevals
       /\ Len(sel_out.history.params) = sel_out.nevals

\* C7 (amended): when _fit_pirls fails inside select_penweight the same
\* exception reaches the caller and the search stops with no further
\* evaluation; the trace is a local of select_penweight that only a normal
\* return hands over, so the caller receives no trace with the exception.
C7_FailureAbortsSearch ==
    /\ (out.kind = "raise" /\ args.caller = "select" /\ pc \notin {"loop", "fun"})
       => /\ pc = "idle"
          /\ sel_out.kind = "raise"
          /\ sel_out.exc = out.exc
          /\ sel = NoSel
    /\ (sel_out.kind = "raise" /\ sel_out.exc # "ValueError")
       => /\ sel_out.history = NoSelOut.history
          /\ sel_out.alpha = None
          /\ out.kind = "raise"

\* the second evaluation failed after a first one that succeeded
C7_Witness ==
    /\ sel_out.kind = "raise"
    /\ sel_out.exc = "PerfectSeparationError"
    /\ sel_out.nevals >= 1

\* C8 (as claimed): every alpha that GLMGam.__init__ accepts through
\* _check_alpha is a list with one entry per smooth term.
C8_AlphaLengthChecked ==
    pc # "new" /\ pc # "aug" => Len(self.alpha) = KSmooths

\* C9: a _fit_pirls call repeated on the same instance with the same
\* arguments ends the same way with the same fit history (coefficients and
\* deviance of every iteration, iteration count) and converged flag.
C9_RepeatSameHistory ==
    (pc = "idle" /\ prev.kind # "none" /\ out.kind # "none")
    => /\ out.kind = prev.kind
       /\ out.exc = prev.exc
       /\ out.fit_history = prev.fit_history
       /\ out.converged = prev.converged

\* a repeated run on an instance whose df_resid and scale the first run changed
C9_Witness ==
    /\ pc = "idle"
    /\ prev.kind = "ok"
    /\ out.kind = "ok"
    /\ args.weights # None
    /\ Len(out.fit_history.deviance) >= 4
    /\ self.df_resid # (Len(Exog) - Len(Exog[1])) * FixedPoint
    /\ self.scale # 1

Transpose(m) == [j \in 1..Len(m[1]) |-> [i \in 1..Len(m) |-> m[i][j]]]

MatMul(a, b) ==
    [i \in 1..Len(a) |-> [j \in 1..Len(b[1]) |->
        SumSeq([k \in 1..Len(b) |-> a[i][k] * b[k][j]])]]

\* C10: make_augmented_matrix(y, X, S, w) returns a design of n + p rows
\* and p columns whose first n rows are X and whose last p rows R satisfy
\* R^T R = S, a response y followed by p zeros and weights w followed by p
\* ones, and leaves y, X, S and w as they were.
C10_AugmentedShape ==
    aug.called
    => LET n == Len(aug.before[2])
           p == Len(aug.before[3])
           r == aug.result
           rows == SubSeq(r.exog, n + 1, n + p)
       IN  /\ Len(r.exog) = n + p
           /\ \A i \in 1..(n + p) : Len(r.exog[i]) = p
           /\ SubSeq(r.exog, 1, n) = aug.before[2]
           /\ MatMul(Transpose(rows), rows) = aug.before[3]
           /\ r.endog = aug.before[1] \o [i \in 1..p |-> 0]
           /\ r.weights = aug.before[4] \o [i \in 1..p |-> 1]
           /\ <<aug.y, aug.x, aug.s, aug.w>> = aug.before

C10_Witness ==
    /\ aug.called
    /\ Len(aug.x) = 2
    /\ Len(aug.s) = 2
    /\ aug.s[1][1] = 4
    /\ aug.s[2][2] = 1
    /\ Len(aug.result.exog) = 4

\* C11 (as claimed): after a run that executed k iterations the fit history
\* holds k entries in 'params' and k entries in 'deviance'.
C11_OneEntryPerIteration ==
    out.kind = "ok"
    => /\ Len(out.fit_history.params) = cnt.solves
       /\ Len(out.fit_history.deviance) = cnt.solves

\* C11 (amended): the fit history of _fit_pirls starts with two seed entries,
\* (None, inf) and (start_params, deviance at the start), and gets exactly
\* one (coefficients, deviance) entry per executed iteration, so that after k
\* iterations 'params' and 'deviance' each hold k + 2 entries and a returned
\* history has 'iteration' = k; a step of the run only appends, the entries
\* recorded before it stay as they were.
C11_HistorySeedPlusIterations ==
    /\ [](history # NoHistory
          => /\ Len(history.params) = cnt.solves + 2
             /\ Len(history.deviance) = cnt.solves + 2
             /\ history.params[1] = None
             /\ history.params[2] = args.start_params
             /\ history.deviance[1] = Inf
             /\ out.kind = "ok"
                => /\ out.fit_history.params = history.params
                   /\ out.fit_history.deviance = history.deviance
                   /\ out.fit_history.iteration = cnt.solves)
    /\ [][pc = "loop"
          => /\ Len(history'.params) = Len(history.params) + (cnt'.solves - cnt.solves)
             /\ SubSeq(history'.params, 1, Len(history.params)) = history.params
             /\ SubSeq(history'.deviance, 1, Len(history.deviance))
                   = history.deviance]_vars

\* a returned history of a run of two iterations: two seeds and two entries
C11_Witness ==
    /\ out.kind = "ok"
    /\ cnt.solves = 2
    /\ Len(out.fit_history.params) = 4
    /\ Len(out.fit_history.deviance) = 4
    /\ out.fit_history.params[3] # None
    /\ out.fit_history.iteration = 2

\* C12: every call of _fit_pirls that fun makes inside select_penweight has
\* alpha = exp(p) for the candidate p of the optimizer; the first one has
\* start_params = start_model_params of the caller, and each later one has
\* start_params = the coefficients that the evaluation before it returned.
C12_WarmStartChain ==
    [][(pc = "opt" /\ pc' = "loop")
       => /\ args'.caller = "select"
          /\ args'.alpha = [i \in 1..Len(sel'.x) |-> Exp(sel'.x[i])]
          /\ sel.nevals = 0 => args'.start_params = sel.start_model_params
          /\ sel.nevals >= 1
             => /\ out.kind = "ok"
                /\ args'.start_params = out.params]_vars

\* the second evaluation is running, started from the coefficients of the
\* first, which are not the caller's start_model_params
C12_Witness ==
    /\ pc = "loop"
    /\ args.caller = "select"
    /\ sel.nevals = 1
    /\ args.start_params = sel.params[2]
    /\ args.start_params # sel.start_model_params
    /\ args.alpha = <<4>>
    /\ sel.alpha = <<(<<1>>)>>

\* C13: in every iteration of a _fit_pirls run the penalty matrix handed to
\* make_augmented_matrix is 2 * penalty_matrix(alpha), with penalty_matrix
\* (alpha) the matrix computed before the loop: the factor two is applied
\* once, and all iterations of the run get the same matrix.
C13_PenaltyDoubledOnce ==
    history # NoHistory
    => /\ loc.spl_s = penalty_matrix(args.alpha)
       /\ Len(loc.aug_penalty) = cnt.solves
       /\ \A i \in 1..Len(loc.aug_penalty) :
             /\ loc.aug_penalty[i] = MatScale(2, penalty_matrix(args.alpha))
             /\ loc.aug_penalty[i] # penalty_matrix(args.alpha)
             /\ loc.aug_penalty[i] # MatScale(4, penalty_matrix(args.alpha))

\* two iterations at alpha = 4 both solved with the penalty 2 * 4 * S
C13_Witness ==
    /\ cnt.solves >= 2
    /\ args.alpha = <<4>>
    /\ loc.aug_penalty[1] = MatScale(8, PenaltyS0)
    /\ loc.aug_penalty[2] = MatScale(8, PenaltyS0)

\* C14 (as claimed): the convergence test at the end of an iteration compares
\* the deviance that iteration appended with the entry before it, the two
\* most recent entries of the deviance history.
C14_TestsLatestDeviance ==
    (history # NoHistory /\ cnt.convchecks >= 1 /\ cnt.convchecks = cnt.solves)
    => loc.last_test
          = AllClose(history.deviance[Len(history.deviance) - 1],
                     history.deviance[Len(history.deviance)], args.tol, 0)

\* C15: no step of _fit_pirls or select_penweight changes self.alpha, which
\* stays what __init__ stored, and fit() runs _fit_pirls at that alpha.
C15_ModelAlphaUnchanged ==
    /\ [](args.caller = "fit" => args.alpha = self.alpha)
    /\ [][pc # "new" => self'.alpha = self.alpha]_vars

\* select_penweight returned an alpha other than the stored one, after runs
\* of _fit_pirls at a candidate alpha other than the stored one
C15_Witness ==
    /\ pc = "idle"
    /\ sel_out.kind = "ok"
    /\ sel_out.alpha # self.alpha
    /\ args.caller = "select"
    /\ args.alpha # self.alpha
    /\ out.kind = "ok"
    /\ self.alpha = <<1>>

====
